---- MODULE Spec2Model ----
(***************************************************************************)
(* The MPU-6500 driver of src/main.py: class IMU (register initialisation, *)
(* signed 16-bit register decoding, per-axis moving-average filter) and    *)
(* the polling loop of __main__.                                           *)
(*                                                                         *)
(* Physical values are Python floats.  Every value the driver produces is  *)
(* k * 2/32768 for an integer k, and every window sum is a sum of at most  *)
(* N such values, so all of them are exact in binary64; they are kept here *)
(* as exact rationals <<numerator, denominator>> in lowest terms.          *)
(***************************************************************************)
EXTENDS Integers, Sequences, FiniteSets, TLC

\* ------------------------------------------------------------- bounds
\* Polls of the __main__ loop that the model follows.
MaxPolls == 2
\* Times the device replaces its output sample during a run.
MaxUpdates == 2
\* Calls of _moving_average in the filter-only specification.
MaxPushes == 11
\* Largest small window size tried besides the source's own N.
MaxSmallN == 2

\* ---------------------------------------------------------- constants
MPU6500_ADDR == 104
PWR_MGMT_1 == 107
GYRO_CONFIG == 27
ACCEL_CONFIG == 28
ACCEL_XOUT_H == 59
DefaultN == 10

Axes == {"X", "Y", "Z"}

\* ------------------------------------------------- float arithmetic
Abs(x) == IF x < 0 THEN -x ELSE x

RECURSIVE GCD(_, _)
GCD(a, b) == IF b = 0 THEN a ELSE GCD(b, a % b)

\* The rational n/d (d # 0) in lowest terms with a positive denominator.
Rat(n, d) ==
    LET s == IF d < 0 THEN -1 ELSE 1
        g == GCD(Abs(n), Abs(d))
    IN  <<(s * n) \div g, (s * d) \div g>>

RatAdd(p, q) == Rat(p[1] * q[2] + q[1] * p[2], p[2] * q[2])

RatMulInt(k, q) == Rat(k * q[1], q[2])

\* p / n for an integer n # 0.
RatDivInt(p, n) == Rat(p[1], p[2] * n)

Zero == <<0, 1>>

\* 2.0 / 32768
ACCEL_SCALE == Rat(2, 32768)

\* sum(window[axis])
RECURSIVE Sum(_)
Sum(w) == IF w = <<>> THEN Zero ELSE RatAdd(w[1], Sum(Tail(w)))

\* [0] * n : the empty list when n <= 0.
Zeros(n) == [i \in 1..(IF n > 0 THEN n ELSE 0) |-> Zero]

\* lst[1:] : the empty list when lst is empty.
Slice1(lst) == IF lst = <<>> THEN <<>> ELSE Tail(lst)

\* ------------------------------------------------------ _read_word
\* (high << 8) + low
Compose(h, l) == h * 256 + l

ToSignedOffByOne(v) == IF v > 32768 THEN v - 65536 ELSE v

\* if val >= 0x8000: val -= 0x10000
ToSigned(v) == IF v >= 32768 THEN v - 65536 ELSE v

ReadWordValue(h, l) == ToSigned(Compose(h, l))

\* ---------------------------------------------------------- the device
\* The device's output sample: one unsigned 16-bit word per axis.
SampleA == [a \in Axes |-> CASE a = "X" -> 16384 [] a = "Y" -> 0 [] OTHER -> 49152]
SampleB == [a \in Axes |-> CASE a = "X" -> 32767 [] a = "Y" -> 32768 [] OTHER -> 65535]
SampleC == [a \in Axes |-> CASE a = "X" -> 255 [] a = "Y" -> 65280 [] OTHER -> 256]
Samples == {SampleA, SampleB, SampleC}

\* Register offset of each axis from ACCEL_XOUT_H in the device's map.
AxisOffset(a) == CASE a = "X" -> 0 [] a = "Y" -> 2 [] OTHER -> 4

\* The byte the device holds at register reg when its sample is d:
\* big-endian words from ACCEL_XOUT_H on; other registers read as 0 here.
RegByte(d, reg) ==
    IF \E a \in Axes : reg = ACCEL_XOUT_H + AxisOffset(a)
    THEN LET a == CHOOSE b \in Axes : reg = ACCEL_XOUT_H + AxisOffset(b)
         IN  d[a] \div 256
    ELSE IF \E a \in Axes : reg = ACCEL_XOUT_H + AxisOffset(a) + 1
    THEN LET a == CHOOSE b \in Axes : reg = ACCEL_XOUT_H + AxisOffset(b) + 1
         IN  d[a] % 256
    ELSE 0

\* ------------------------------------------------------------- state
VARIABLES
    pc,            \* position in the program
    stmt,          \* index of the current statement of read_accel_data
    N,             \* self.N
    imu,           \* __main__: imu, "bound" once IMU() has returned
    accel_window,  \* self.accel_window
    gyro_window,   \* self.gyro_window
    bus,           \* the transactions issued on the I2C bus, in order
    dev,           \* the device's current output sample
    high,          \* _read_word: high
    low,           \* _read_word: low
    val,           \* _read_word: <<value returned>>, <<>> while none is
    raw,           \* read_accel_data: ax, ay, az (<<>> while unassigned)
    filtered,      \* read_accel_data: ax_filtered, ay_filtered, az_filtered
    polls,         \* completed iterations of the __main__ loop
    error,         \* the exception that ended the program, "none" if none
    pushed,        \* history: the values passed to _moving_average per axis
    entry_window,  \* history: accel_window when read_accel_data was entered
    word_high,     \* history: the device word when high was read
    word_low,      \* history: the device word when low was read
    updates        \* history: how often the device replaced its sample

vars == <<pc, stmt, N, imu, accel_window, gyro_window, bus, dev, high, low, val,
          raw, filtered, polls, error, pushed, entry_window, word_high,
          word_low, updates>>


\* Variables that only read_accel_data and the device touch.
pollVars == <<stmt, high, low, val, raw, filtered, polls, pushed,
              entry_window, word_high, word_low>>

NoValues == [a \in Axes |-> <<>>]

\* One transaction on the bus: readfrom_mem / writeto_mem at MPU6500_ADDR.
\* arg is the byte written, or the number of bytes asked for.
Txn(op, reg, arg, ok) ==
    [op |-> op, addr |-> MPU6500_ADDR, reg |-> reg, arg |-> arg, ok |-> ok]

\* ------------------------------------------------------- construction
\* self.N and the two window dictionaries, three separate lists each.
Construct(next) ==
    /\ pc = "construct"
    /\ accel_window' = [a \in Axes |-> Zeros(N)]
    /\ gyro_window' = [a \in Axes |-> Zeros(N)]
    /\ pc' = next
    /\ UNCHANGED <<N, imu, bus, dev, error, updates, pollVars>>

\* __init__ up to the call of _initialize_mpu.
New == Construct("wake")

\* ----------------------------------------------------- _initialize_mpu
\* writeto_mem(MPU6500_ADDR, reg, b'\x00'): completes, or raises OSError,
\* which nothing catches.
WriteTo(at, reg, next) ==
    /\ pc = at
    /\ UNCHANGED <<N, imu, accel_window, gyro_window, dev, updates, pollVars>>
    /\ \/ /\ bus' = Append(bus, Txn("write", reg, 0, TRUE))
          /\ pc' = next
          /\ error' = error
       \/ /\ bus' = Append(bus, Txn("write", reg, 0, FALSE))
          /\ pc' = "failed"
          /\ error' = "OSError"

Wake == WriteTo("wake", PWR_MGMT_1, "settle")

\* time.sleep(0.1)
Settle ==
    /\ pc = "settle"
    /\ pc' = "accel_cfg"
    /\ UNCHANGED <<N, imu, accel_window, gyro_window, bus, dev, error, updates,
                   pollVars>>

SetAccelRangeSwapped == WriteTo("accel_cfg", GYRO_CONFIG, "gyro_cfg")

SetAccelRange == WriteTo("accel_cfg", ACCEL_CONFIG, "gyro_cfg")

SetGyroRange == WriteTo("gyro_cfg", GYRO_CONFIG, "constructed")

\* imu = IMU(): the constructor has returned.
Bind ==
    /\ pc = "constructed"
    /\ imu' = "bound"
    /\ pc' = "loop"
    /\ UNCHANGED <<N, accel_window, gyro_window, bus, dev, error, updates,
                   pollVars>>

\* ----------------------------------------------------- read_accel_data
ReadAccelBodyWrongOffsets ==
    << [op |-> "read", axis |-> "X", off |-> 0],
       [op |-> "read", axis |-> "Y", off |-> 1],
       [op |-> "read", axis |-> "Z", off |-> 2],
       [op |-> "avg", axis |-> "X", off |-> 0],
       [op |-> "avg", axis |-> "Y", off |-> 0],
       [op |-> "avg", axis |-> "Z", off |-> 0] >>

ReadAccelBodyInterleaved ==
    << [op |-> "read", axis |-> "X", off |-> 0],
       [op |-> "avg", axis |-> "X", off |-> 0],
       [op |-> "read", axis |-> "Y", off |-> 2],
       [op |-> "avg", axis |-> "Y", off |-> 0],
       [op |-> "read", axis |-> "Z", off |-> 4],
       [op |-> "avg", axis |-> "Z", off |-> 0] >>

\* The statements of read_accel_data in program order: three _read_word
\* calls at ACCEL_XOUT_H + off, then three _moving_average calls.
ReadAccelBody ==
    << [op |-> "read", axis |-> "X", off |-> 0],
       [op |-> "read", axis |-> "Y", off |-> 2],
       [op |-> "read", axis |-> "Z", off |-> 4],
       [op |-> "avg", axis |-> "X", off |-> 0],
       [op |-> "avg", axis |-> "Y", off |-> 0],
       [op |-> "avg", axis |-> "Z", off |-> 0] >>

\* Where control is when statement i is next.
StmtPc(i) ==
    IF i > Len(ReadAccelBody) THEN "return"
    ELSE IF ReadAccelBody[i].op = "read" THEN "high" ELSE "avg"

Cur == ReadAccelBody[stmt]

\* The reg argument of the current _read_word call.
Reg == ACCEL_XOUT_H + Cur.off

\* while True: imu.read_accel_data() is entered.
LoopCall ==
    /\ pc = "loop"
    /\ polls < MaxPolls
    /\ stmt' = 1
    /\ pc' = StmtPc(1)
    /\ raw' = NoValues
    /\ filtered' = NoValues
    /\ val' = <<>>
    /\ entry_window' = accel_window
    /\ UNCHANGED <<N, imu, accel_window, gyro_window, bus, dev, error, updates,
                   high, low, polls, pushed, word_high, word_low>>

\* high = readfrom_mem(MPU6500_ADDR, reg, 1)[0] completes.
HighReadOk ==
    /\ pc = "high"
    /\ bus' = Append(bus, Txn("read", Reg, 1, TRUE))
    /\ high' = RegByte(dev, Reg)
    /\ word_high' = dev[Cur.axis]
    /\ val' = <<>>
    /\ pc' = "low"
    /\ UNCHANGED <<N, imu, accel_window, gyro_window, dev, error, updates, stmt,
                   low, raw, filtered, polls, pushed, entry_window, word_low>>

\* The same read raises OSError; nothing catches it.
HighReadFails ==
    /\ pc = "high"
    /\ bus' = Append(bus, Txn("read", Reg, 1, FALSE))
    /\ pc' = "failed"
    /\ error' = "OSError"
    /\ val' = <<>>
    /\ UNCHANGED <<N, imu, accel_window, gyro_window, dev, updates, stmt, high,
                   low, raw, filtered, polls, pushed, entry_window,
                   word_high, word_low>>

LowReadOkSameReg ==
    /\ pc = "low"
    /\ bus' = Append(bus, Txn("read", Reg, 1, TRUE))
    /\ low' = RegByte(dev, Reg)
    /\ word_low' = dev[Cur.axis]
    /\ pc' = "compose"
    /\ UNCHANGED <<N, imu, accel_window, gyro_window, dev, error, updates, stmt,
                   high, val, raw, filtered, polls, pushed, entry_window,
                   word_high>>

\* low = readfrom_mem(MPU6500_ADDR, reg + 1, 1)[0] completes.
LowReadOk ==
    /\ pc = "low"
    /\ bus' = Append(bus, Txn("read", Reg + 1, 1, TRUE))
    /\ low' = RegByte(dev, Reg + 1)
    /\ word_low' = dev[Cur.axis]
    /\ pc' = "compose"
    /\ UNCHANGED <<N, imu, accel_window, gyro_window, dev, error, updates, stmt,
                   high, val, raw, filtered, polls, pushed, entry_window,
                   word_high>>

LowReadFailsSwallowed ==
    /\ pc = "low"
    /\ bus' = Append(bus, Txn("read", Reg + 1, 1, FALSE))
    /\ low' = 0
    /\ pc' = "compose"
    /\ UNCHANGED <<N, imu, accel_window, gyro_window, dev, error, updates, stmt,
                   high, val, raw, filtered, polls, pushed, entry_window,
                   word_high, word_low>>

\* The same read raises OSError; nothing catches it.
LowReadFails ==
    /\ pc = "low"
    /\ bus' = Append(bus, Txn("read", Reg + 1, 1, FALSE))
    /\ pc' = "failed"
    /\ error' = "OSError"
    /\ UNCHANGED <<N, imu, accel_window, gyro_window, dev, updates, stmt, high,
                   low, val, raw, filtered, polls, pushed, entry_window,
                   word_high, word_low>>

\* _read_word returns val; read_accel_data multiplies it by ACCEL_SCALE.
ReadReturn ==
    /\ pc = "compose"
    /\ val' = <<ReadWordValue(high, low)>>
    /\ raw' = [raw EXCEPT ![Cur.axis] =
                  RatMulInt(ReadWordValue(high, low), ACCEL_SCALE)]
    /\ stmt' = stmt + 1
    /\ pc' = StmtPc(stmt + 1)
    /\ UNCHANGED <<N, imu, accel_window, gyro_window, bus, dev, error, updates,
                   high, low, filtered, polls, pushed, entry_window,
                   word_high, word_low>>


\* ----------------------------------------------------- _moving_average
SlideGrow(w, v) == w \o <<v>>

SlideDropNewest(w, v) == SubSeq(w, 1, Len(w) - 1) \o <<v>>

\* window[axis][1:] + [value]
Slide(w, v) == Slice1(w) \o <<v>>

MovingAverageAllAxes(axis, value, next) ==
    LET w == Slide(accel_window[axis], value)
    IN  /\ accel_window' = [a \in Axes |-> w]
        /\ gyro_window' = gyro_window
        /\ pushed' = [pushed EXCEPT ![axis] = Append(@, value)]
        /\ filtered' = [filtered EXCEPT ![axis] = <<RatDivInt(Sum(w), N)>>]
        /\ pc' = next
        /\ error' = error

\* _moving_average(axis, value, self.accel_window): the window of axis is
\* rebound to the slid list, then sum(window[axis]) / self.N is returned,
\* or ZeroDivisionError is raised when self.N is 0.
MovingAverage(axis, value, next) ==
    LET w == Slide(accel_window[axis], value)
    IN  /\ accel_window' = [accel_window EXCEPT ![axis] = w]
        /\ gyro_window' = gyro_window
        /\ pushed' = [pushed EXCEPT ![axis] = Append(@, value)]
        /\ IF N = 0
           THEN /\ filtered' = filtered
                /\ pc' = "failed"
                /\ error' = "ZeroDivisionError"
           ELSE /\ filtered' = [filtered EXCEPT ![axis] =
                                   <<RatDivInt(Sum(w), N)>>]
                /\ pc' = next
                /\ error' = error

\* a*_filtered = self._moving_average(axis, a*, self.accel_window)
AverageStep ==
    /\ pc = "avg"
    /\ MovingAverage(Cur.axis, raw[Cur.axis], StmtPc(stmt + 1))
    /\ stmt' = stmt + 1
    /\ UNCHANGED <<N, imu, bus, dev, updates, high, low, val, raw, polls,
                   entry_window, word_high, word_low>>

\* return ax_filtered, ay_filtered, az_filtered; print; time.sleep(0.5)
Return ==
    /\ pc = "return"
    /\ polls' = polls + 1
    /\ pc' = "loop"
    /\ UNCHANGED <<N, imu, accel_window, gyro_window, bus, dev, error, updates,
                   stmt, high, low, val, raw, filtered, pushed, entry_window,
                   word_high, word_low>>

\* The device replaces its output sample; it does so on its own clock, also
\* between the two single-byte reads of one _read_word call.
DeviceUpdate ==
    /\ pc \in {"loop", "high", "low", "compose", "avg", "return"}
    /\ updates < MaxUpdates
    /\ dev' \in Samples \ {dev}
    /\ updates' = updates + 1
    /\ UNCHANGED <<pc, N, imu, accel_window, gyro_window, bus, error, pollVars>>

\* --------------------------------------------------------- the program
\* The fields before the windows are built; dev is what the device holds.
InitFields(n) ==
    /\ stmt = 1
    /\ N = n
    /\ val = <<>>
    /\ raw = NoValues
    /\ filtered = NoValues
    /\ polls = 0
    /\ error = "none"
    /\ pushed = NoValues
    /\ entry_window = NoValues
    /\ word_high = 0
    /\ word_low = 0
    /\ updates = 0

\* __main__ has called IMU(); the windows are not built yet.
Unbuilt ==
    /\ pc = "construct"
    /\ imu = "unbound"
    /\ accel_window = NoValues
    /\ gyro_window = NoValues
    /\ bus = <<>>
    /\ high = 0
    /\ low = 0

Init ==
    /\ InitFields(DefaultN)
    /\ Unbuilt
    /\ dev \in Samples

Next ==
    \/ New
    \/ Wake
    \/ Settle
    \/ SetAccelRange
    \/ SetGyroRange
    \/ Bind
    \/ LoopCall
    \/ HighReadOk
    \/ HighReadFails
    \/ LowReadOk
    \/ LowReadFails
    \/ ReadReturn
    \/ AverageStep
    \/ Return
    \/ DeviceUpdate

Spec == Init /\ [][Next]_vars


\* ------------------------------------------- the filter on its own
\* Window sizes self.N is tried with: the source's 10, small sizes, and the
\* sizes 0 and -1 that a window size must not have.
WindowSizes == (-1 .. MaxSmallN) \cup {DefaultN}

\* Values passed to _moving_average: 10.0 and -0.5.
PushValues == {Rat(10, 1), Rat(-1, 2)}

Pushes == Len(pushed["X"]) + Len(pushed["Y"]) + Len(pushed["Z"])

FilterInit ==
    /\ \E n \in WindowSizes : InitFields(n)
    /\ Unbuilt
    /\ dev = SampleA

\* The windows are built for self.N, whatever it is.
FilterNew == Construct("filter")

\* One call of _moving_average on self.accel_window.
FilterPush ==
    /\ pc = "filter"
    /\ Pushes < MaxPushes
    /\ \E a \in Axes, v \in PushValues : MovingAverage(a, v, "filter")
    /\ UNCHANGED <<N, imu, bus, dev, updates, stmt, high, low, val, raw, polls,
                   entry_window, word_high, word_low>>

FilterNext ==
    \/ FilterNew
    \/ FilterPush

FilterSpec == FilterInit /\ [][FilterNext]_vars

\* ------------------------------------------ the decoding on its own
\* _read_word(ACCEL_XOUT_H) in the first poll, both reads done, for every
\* pair of bytes the two reads can return.
DecodeInit ==
    /\ InitFields(DefaultN)
    /\ pc = "compose"
    /\ imu = "bound"
    /\ accel_window = [a \in Axes |-> Zeros(DefaultN)]
    /\ gyro_window = [a \in Axes |-> Zeros(DefaultN)]
    /\ bus = << Txn("write", PWR_MGMT_1, 0, TRUE),
                Txn("write", ACCEL_CONFIG, 0, TRUE),
                Txn("write", GYRO_CONFIG, 0, TRUE),
                Txn("read", ACCEL_XOUT_H, 1, TRUE),
                Txn("read", ACCEL_XOUT_H + 1, 1, TRUE) >>
    /\ dev = SampleA
    /\ high \in 0..255
    /\ low \in 0..255

DecodeNext == ReadReturn

DecodeSpec == DecodeInit /\ [][DecodeNext]_vars


\* ================================================================ claims
Min(a, b) == IF a < b THEN a ELSE b

\* The last n elements of s (all of s when it is shorter).
LastOf(s, n) == SubSeq(s, Len(s) - Min(n, Len(s)) + 1, Len(s))

\* The signed reading of an unsigned 16-bit word, stated arithmetically:
\* the one integer in [-32768, 32767] congruent to w modulo 65536.
Signed16(w) == CHOOSE r \in {w, w - 65536} : -32768 <= r /\ r <= 32767

\* C1: for every high and low byte in 0..255, _read_word returns
\* v = high*256 + low when v < 0x8000 and v - 0x10000 otherwise, a value in
\* [-32768, 32767]; (0x7F,0xFF) -> 32767, (0x80,0x00) -> -32768,
\* (0xFF,0xFF) -> -1, (0x00,0x00) -> 0.
C1_SignDecoding ==
    val # <<>> =>
        LET v == high * 256 + low
        IN  /\ val[1] = (IF v < 32768 THEN v ELSE v - 65536)
            /\ val[1] \in -32768 .. 32767
            /\ (high = 127 /\ low = 255) => val[1] = 32767
            /\ (high = 128 /\ low = 0) => val[1] = -32768
            /\ (high = 255 /\ low = 255) => val[1] = -1
            /\ (high = 0 /\ low = 0) => val[1] = 0

\* The boundary word 0x8000 has been decoded.
C1_Witness == high = 128 /\ low = 0 /\ val = <<-32768>>

C3_WindowLength ==
    (pc # "construct" /\ N >= 1) =>
        \A a \in Axes :
            /\ Len(accel_window[a]) = N
            /\ Len(gyro_window[a]) = N

\* A window of size 2 after three pushes to it and pushes to the others.
C3_Witness ==
    /\ N = 2
    /\ Len(pushed["Z"]) = 3
    /\ Len(pushed["X"]) = 1
    /\ Len(pushed["Y"]) = 1
    /\ Len(accel_window["Z"]) = 2

InitWrites ==
    << Txn("write", 107, 0, TRUE),
       Txn("write", 28, 0, TRUE),
       Txn("write", 27, 0, TRUE) >>

\* The six reads of one poll, as they appear on the bus.
PollReads == [i \in 1..6 |-> Txn("read", 58 + i, 1, TRUE)]

IsRead(t) == t.op = "read"

IsWrite(t) == t.op = "write"

\* C5: when the read of the high byte or of the low byte fails, _read_word
\* fails with the transport's error and returns nothing: no sample is built
\* from one byte, and the failed read is not issued again.
C5_ReadFailurePropagates ==
    \A i \in 1..Len(bus) :
        (IsRead(bus[i]) /\ ~bus[i].ok) =>
            /\ i = Len(bus)
            /\ pc = "failed"
            /\ error = "OSError"
            /\ val = <<>>
            /\ raw[Cur.axis] = <<>>
            /\ filtered[Cur.axis] = <<>>
            /\ Len(pushed[Cur.axis]) = polls

\* The low-byte read of Y failed after its high-byte read had succeeded.
C5_Witness ==
    /\ pc = "failed"
    /\ Len(bus) >= 2
    /\ bus[Len(bus)] = Txn("read", 62, 1, FALSE)
    /\ bus[Len(bus) - 1] = Txn("read", 61, 1, TRUE)

\* C6: a push to one axis leaves the accelerometer windows of the other two
\* axes unchanged, nothing after construction changes the gyroscope windows,
\* and an axis's window and filtered output are functions of the values
\* pushed to that axis alone.
C6_AxesIndependent ==
    /\ [][pc # "construct" =>
            /\ gyro_window' = gyro_window
            /\ \A a \in Axes :
                  accel_window'[a] # accel_window[a] =>
                      (pc = "avg" /\ Cur.axis = a)]_vars
    /\ [](pc # "construct" =>
            \A a \in Axes :
                /\ accel_window[a] = LastOf(Zeros(N) \o pushed[a], N)
                /\ filtered[a] # <<>> =>
                      filtered[a] =
                          <<RatDivInt(Sum(LastOf(Zeros(N) \o pushed[a], N)), N)>>)

\* X has been pushed a value that is not zero and Y, about to be pushed one,
\* still holds its zeros.
C6_Witness ==
    /\ pc = "avg"
    /\ Cur.axis = "Y"
    /\ raw["Y"] # Zero
    /\ accel_window["X"] # Zeros(N)
    /\ accel_window["Y"] = Zeros(N)
    /\ gyro_window = [a \in Axes |-> Zeros(N)]

\* C7: initialization issues exactly three writes to address 0x68, in the
\* order 0x00 to 0x6B, then after the settling wait 0x00 to 0x1C, then 0x00
\* to 0x1B; the driver is Ready (IMU() has returned) only after the third,
\* never goes back, and no register is read before it is Ready.
C7_Initialization ==
    /\ [](LET writes == SelectSeq(bus, IsWrite)
          IN  /\ Len(writes) <= 3
              /\ \A i \in 1..Len(writes) :
                    /\ bus[i] = [InitWrites[i] EXCEPT !.ok = bus[i].ok]
                    /\ bus[i].addr = 104
                    /\ ~bus[i].ok => (i = Len(bus) /\ pc = "failed")
              /\ imu = "bound" => SubSeq(bus, 1, 3) = InitWrites
              /\ imu = "bound" => Len(writes) = 3
              /\ \A i \in 1..Len(bus) :
                    IsRead(bus[i]) => (i > 3 /\ imu = "bound"))
    /\ [][/\ imu = "bound" => imu' = "bound"
          /\ (pc' = "accel_cfg" /\ pc # "accel_cfg") => pc = "settle"
          /\ (pc' = "settle" /\ pc # "settle") =>
                (pc = "wake" /\ bus' = <<InitWrites[1]>>)]_vars

\* The driver is Ready and has read a data register.
C7_Witness ==
    /\ imu = "bound"
    /\ Len(bus) = 4
    /\ bus[4] = Txn("read", 59, 1, TRUE)

\* C8: a successful poll issues exactly six single-byte reads, at registers
\* 0x3B, 0x3C, 0x3D, 0x3E, 0x3F, 0x40 in that order, and all six are done
\* before the first push of the poll.
C8_PollReadOrder ==
    /\ pc \in {"avg", "return"} =>
          /\ Len(bus) = 3 + 6 * (polls + 1)
          /\ SubSeq(bus, Len(bus) - 5, Len(bus)) = PollReads
    /\ pc \in {"high", "low", "compose"} =>
          /\ accel_window = entry_window
          /\ \A a \in Axes : Len(pushed[a]) = polls
    /\ Len(SelectSeq(bus, IsRead)) <= 6 * (polls + 1)
    /\ pc = "loop" => Len(SelectSeq(bus, IsRead)) = 6 * polls

\* The second poll has completed.
C8_Witness ==
    /\ pc = "return"
    /\ polls = 1
    /\ Len(bus) = 15

\* C9: when the device replaces its sample between the two reads of one
\* _read_word call, the call returns the old sample's high byte with the new
\* sample's low byte, which may be neither sample; nothing detects it: the
\* call returns normally and the value goes on to be scaled.
C9_TornRead ==
    /\ pc = "compose" =>
          /\ high = word_high \div 256
          /\ low = word_low % 256
    /\ val # <<>> =>
          /\ val[1] = Signed16((word_high \div 256) * 256 + (word_low % 256))
          /\ error = "none"
          /\ ReadAccelBody[stmt - 1].op = "read" =>
                raw[ReadAccelBody[stmt - 1].axis] = Rat(val[1], 16384)

\* A call has returned a value that is neither the sample the device held
\* at the first read nor the one it held at the second.
C9_Witness ==
    /\ val # <<>>
    /\ word_high # word_low
    /\ val[1] # Signed16(word_high)
    /\ val[1] # Signed16(word_low)
    /\ raw["X"] = Rat(val[1], 16384)

\* C10: a poll is all-or-nothing on the filter state: when one of its reads
\* fails the three accelerometer windows are as they were when the poll
\* began, and when all succeed each window has had exactly one push.
C10_PollAllOrNothing ==
    /\ (pc = "failed" /\ imu = "bound") =>
          /\ accel_window = entry_window
          /\ \A a \in Axes : Len(pushed[a]) = polls
    /\ pc = "return" =>
          \A a \in Axes :
              /\ raw[a] # <<>>
              /\ accel_window[a] = Tail(entry_window[a]) \o <<raw[a]>>
              /\ Len(pushed[a]) = polls + 1

\* The second poll failed at its Z read, after a first poll that pushed a
\* value other than zero to X.
C10_Witness ==
    /\ pc = "failed"
    /\ polls = 1
    /\ Cur.axis = "Z"
    /\ raw["X"] # <<>>
    /\ accel_window["X"] # Zeros(N)
    /\ accel_window = entry_window

====
